---- MODULE Spec2Model ----
(***************************************************************************)
(* The optimistic-update demo: three add-product forms (the pessimistic    *)
(* AddProduct, AddProductOptimistic and the comprehensive                  *)
(* OptimisticUpdateDemo) that share one query cache entry, ['products'],   *)
(* with the product list that fetches it.  Strings are sequences of        *)
(* one-character strings so that trim() and parseFloat() are computed;     *)
(* prices are integers in hundredths.                                      *)
(***************************************************************************)
EXTENDS Integers, Sequences, FiniteSets, TLC

\* ------------------------------------------------------------------ bounds
MaxSubmits == 2
MaxNow == 2
MaxInitServer == 2

\* ------------------------------------------------------- program constants
QueryLimit == 2
\* variant: one retry
MutationRetryOnce == 0 + 1

MutationRetry == 0

\* ------------------------------------------------------------------ values
None == << >>
Some(x) == << x >>

Forms == {"opt", "demo", "pess"}
OptimisticForms == {"opt", "demo"}
DemoModes == {"normal", "slow", "error"}

Whitespace == {" ", "\t"}
Digits == <<"0", "1", "2", "3", "4", "5", "6", "7", "8", "9">>
DigitSet == {Digits[i] : i \in 1..10}
DigitVal(c) == (CHOOSE i \in 1..10 : Digits[i] = c) - 1

TitleInputs == { << >>, <<" ">>, <<"P">>, <<" ", "P", " ">> }
PriceInputs == { << >>, <<" ">>, <<"a">>, <<"0">>, <<"-", "1">>,
                 <<" ", "1", ".", "5">> }
\* what the title and price inputs hold at a submit: each title with the
\* price " 1.5", each price with the title "P"
SubmitInputs ==
    {i \in TitleInputs \X PriceInputs :
        i[1] = <<"P">> \/ i[2] = <<" ", "1", ".", "5">>}

\* how the remote service answers a create request: success, a non-success
\* status with a JSON body, or no answer (the request rejects)
Outcomes == {"ok", "nok", "reject"}

\* ------------------------------------------------------- String.prototype
RECURSIVE TrimStart(_)
TrimStart(s) ==
    IF s # << >> /\ Head(s) \in Whitespace THEN TrimStart(Tail(s)) ELSE s

RECURSIVE TrimEnd(_)
TrimEnd(s) ==
    IF s # << >> /\ s[Len(s)] \in Whitespace
    THEN TrimEnd(SubSeq(s, 1, Len(s) - 1))
    ELSE s

Trim(s) == TrimEnd(TrimStart(s))

\* the longest prefix of s made of decimal digits
RECURSIVE DigitsPrefix(_)
DigitsPrefix(s) ==
    IF s # << >> /\ Head(s) \in DigitSet
    THEN <<Head(s)>> \o DigitsPrefix(Tail(s))
    ELSE << >>

RECURSIVE DigitsValue(_)
DigitsValue(ds) ==
    IF ds = << >> THEN 0
    ELSE 10 * DigitsValue(SubSeq(ds, 1, Len(ds) - 1)) + DigitVal(ds[Len(ds)])

\* the first two fraction digits, in hundredths
Hundredths(fs) ==
    (IF Len(fs) >= 1 THEN 10 * DigitVal(fs[1]) ELSE 0)
    + (IF Len(fs) >= 2 THEN DigitVal(fs[2]) ELSE 0)

\* parseFloat: skips leading white space, reads an optional sign, digits and
\* an optional fraction, ignores what follows; None stands for NaN
ParseFloat(s) ==
    LET t == TrimStart(s)
        signed == t # << >> /\ Head(t) \in {"-", "+"}
        sign == IF signed /\ Head(t) = "-" THEN -1 ELSE 1
        u == IF signed THEN Tail(t) ELSE t
        ip == DigitsPrefix(u)
        afterInt == SubSeq(u, Len(ip) + 1, Len(u))
        hasDot == afterInt # << >> /\ Head(afterInt) = "."
        fp == IF hasDot THEN DigitsPrefix(Tail(afterInt)) ELSE << >>
    IN  IF ip = << >> /\ fp = << >> THEN None
        ELSE Some(sign * (100 * DigitsValue(ip) + Hundredths(fp)))


\* ------------------------------------------------------------ remote API
Catalog == <<"A", "B", "C", "D">>

\* a product as the remote service stores and returns it
ServerProduct(id, title, price) ==
    [id |-> id, title |-> title, price |-> price,
     thumbnail |-> <<"cdn", id>>,
     description |-> <<"server">>,
     images |-> << <<"cdn", id>> >>]

RECURSIVE InitialServer(_)
InitialServer(k) ==
    IF k = 0 THEN << >>
    ELSE Append(InitialServer(k - 1), ServerProduct(k, <<Catalog[k]>>, 1000))

Min(a, b) == IF a <= b THEN a ELSE b

\* variant: the list is fetched without limit
ListProductsUnlimited(srv) ==
    [products |-> srv, total |-> Len(srv), skip |-> 0, limit |-> Len(srv)]

\* GET /products?limit=2
ListProducts(srv) ==
    [products |-> SubSeq(srv, 1, Min(QueryLimit, Len(srv))),
     total |-> Len(srv), skip |-> 0, limit |-> Min(QueryLimit, Len(srv))]

\* POST /products/add, answered with success
CreateProduct(srv, newProduct) ==
    ServerProduct(Len(srv) + 1, newProduct.title, newProduct.price)

ErrorBody == [message |-> "Bad Request"]

\* ------------------------------------------------------------------ state
VARIABLES
    cache,          \* the ['products'] entry: None or Some(ProductsQueryData)
    invalidated,    \* the entry's isInvalidated flag
    fetch,          \* the entry's fetch: stage idle, sent or answered
    lastFetched,    \* history: the most recently completed fetch, its result
                    \* and what started it
    server,         \* the remote product list
    now,            \* the last value that Date.now() returned
    listMounted,    \* App: selectedProduct is null, ProductList is rendered
    demoMode,       \* OptimisticUpdateDemo: demoMode
    pc,             \* per form: where its mutation stands
    status,         \* per form: idle, pending, error, success
    error,          \* per form: the mutation's error message
    variables,      \* per form: the NewProduct passed to mutate
    context,        \* per form: what onMutate returned
    timestamp,      \* per form: the Date.now() read by onMutate
    data,           \* per form: what mutationFn resolved with
    failureCount,   \* per form: failed attempts of mutationFn
    log,            \* per form, history: the steps of the current invocation
    resp,           \* per form, history: how the create call was answered
    chain,          \* the form whose promise chain is running, or "none"
    nSubmits,       \* history: calls of mutate so far
    lastRejected,   \* history: the last step was a submit that validation rejected
    droppedFetch    \* history: the onMutate that is running cancelled a fetch
                    \* in flight

vars == <<cache, invalidated, fetch, lastFetched, server, now, listMounted,
          demoMode, pc, status, error, variables, context, timestamp, data,
          failureCount, log, resp, chain, nSubmits, lastRejected,
          droppedFetch>>

queryVars == <<cache, invalidated, fetch, lastFetched>>
mutationVars == <<pc, status, error, variables, context, timestamp, data,
                  failureCount, log, resp, chain>>

IdleFetch == [stage |-> "idle", data |-> None, by |-> "none"]
SentFetch(by) == [stage |-> "sent", data |-> None, by |-> by]

Init ==
    /\ cache = None
    /\ invalidated = FALSE
    /\ fetch = SentFetch("observer")
    /\ lastFetched = [data |-> None, by |-> "none"]
    /\ server \in {InitialServer(k) : k \in {0, MaxInitServer}}
    /\ now = 1
    /\ listMounted = TRUE
    /\ demoMode = "normal"
    /\ pc = [f \in Forms |-> "idle"]
    /\ status = [f \in Forms |-> "idle"]
    /\ error = [f \in Forms |-> None]
    /\ variables = [f \in Forms |-> None]
    /\ context = [f \in Forms |-> None]
    /\ timestamp = [f \in Forms |-> None]
    /\ data = [f \in Forms |-> None]
    /\ failureCount = [f \in Forms |-> 0]
    /\ log = [f \in Forms |-> << >>]
    /\ resp = [f \in Forms |-> "none"]
    /\ chain = "none"
    /\ nSubmits = 0
    /\ lastRejected = FALSE
    /\ droppedFetch = FALSE


\* ------------------------------------------------------- cache operations
\* variant: the id is the clock reading in a coarser unit
OptimisticProductCoarseId(f, newProduct, ts) ==
    [id |-> ts \div 2, title |-> newProduct.title, price |-> newProduct.price,
     thumbnail |-> <<"picsum150", ts>>,
     description |-> IF f = "opt"
                     THEN <<"Recently added product">>
                     ELSE newProduct.title \o <<" - Added via optimistic update">>,
     images |-> << <<"picsum300", ts>> >>]

\* the placeholder product that onMutate builds
OptimisticProduct(f, newProduct, ts) ==
    [id |-> ts, title |-> newProduct.title, price |-> newProduct.price,
     thumbnail |-> <<"picsum150", ts>>,
     description |-> IF f = "opt"
                     THEN <<"Recently added product">>
                     ELSE newProduct.title \o <<" - Added via optimistic update">>,
     images |-> << <<"picsum300", ts>> >>]

\* variant: the placeholder is appended and total is left as it was
OptimisticUpdaterAppends(f, oldData, newProduct, ts) ==
    IF oldData = None THEN None
    ELSE Some([oldData[1] EXCEPT
                 !.products = Append(@, OptimisticProduct(f, newProduct, ts))])

\* variant: an absent entry is created with the placeholder as its only item
OptimisticUpdaterCreatesEntry(f, oldData, newProduct, ts) ==
    IF oldData = None
    THEN Some([products |-> <<OptimisticProduct(f, newProduct, ts)>>,
               total |-> 1, skip |-> 0, limit |-> 0])
    ELSE Some([oldData[1] EXCEPT
                 !.products = <<OptimisticProduct(f, newProduct, ts)>> \o @,
                 !.total = @ + 1])

\* variant: the placeholder takes the place of the first item
OptimisticUpdaterReplacesFirst(f, oldData, newProduct, ts) ==
    IF oldData = None THEN None
    ELSE Some([oldData[1] EXCEPT
                 !.products = <<OptimisticProduct(f, newProduct, ts)>>
                                 \o (IF @ = << >> THEN @ ELSE Tail(@)),
                 !.total = @ + 1])

\* variant: the placeholder is put in front and total is left as it was
OptimisticUpdaterKeepsTotal(f, oldData, newProduct, ts) ==
    IF oldData = None THEN None
    ELSE Some([oldData[1] EXCEPT
                 !.products = <<OptimisticProduct(f, newProduct, ts)>> \o @])

\* the updater function that onMutate passes to setQueryData
OptimisticUpdater(f, oldData, newProduct, ts) ==
    IF oldData = None THEN None
    ELSE Some([oldData[1] EXCEPT
                 !.products = <<OptimisticProduct(f, newProduct, ts)>> \o @,
                 !.total = @ + 1])

\* queryClient.setQueryData: a result of undefined leaves the entry alone
SetQueryData(old, new) == IF new = None THEN old ELSE new

\* variant: a partial revert, the items are restored and total is not
RollbackKeepsTotal(old, ctx) ==
    IF ctx # None /\ ctx[1].previousProducts # None /\ old # None
    THEN Some([ctx[1].previousProducts[1] EXCEPT !.total = old[1].total])
    ELSE old

\* variant: a revert by difference, the first item is removed again
RollbackDropsFirst(old, ctx) ==
    IF old # None /\ old[1].products # << >>
    THEN Some([old[1] EXCEPT !.products = Tail(@), !.total = @ - 1])
    ELSE old

\* variant: a merging revert, the items that were put in front of the entry
\* after the snapshot was taken are kept, except the oldest of them
RollbackKeepsLater(old, ctx) ==
    IF ctx # None /\ ctx[1].previousProducts # None /\ old # None
    THEN LET snap == ctx[1].previousProducts[1]
             held == {snap.products[i] : i \in 1..Len(snap.products)}
             IsLater(x) == x \notin held
             later == SelectSeq(old[1].products, IsLater)
             kept == IF later = << >> THEN << >>
                     ELSE SubSeq(later, 1, Len(later) - 1)
         IN  Some([snap EXCEPT !.products = kept \o @,
                               !.total = @ + Len(kept)])
    ELSE old

\* onError's rollback: restores the snapshot of the context, if there is one
Rollback(old, ctx) ==
    IF ctx # None /\ ctx[1].previousProducts # None
    THEN SetQueryData(old, ctx[1].previousProducts)
    ELSE old

\* variant: the fetch in flight is left to complete
CancelQueriesLeavesFetch == fetch

\* queryClient.cancelQueries: the result of a fetch in flight is dropped
CancelQueries == IdleFetch

\* variant: the entry is marked stale and no fetch is started
InvalidateQueriesMarksOnly(by) == fetch

\* queryClient.invalidateQueries: active queries are fetched again, a fetch in
\* flight is replaced unless the entry has no data yet
InvalidateQueries(by) ==
    IF ~listMounted THEN fetch
    ELSE IF fetch.stage # "idle" /\ cache = None THEN fetch
    ELSE SentFetch(by)

\* ---------------------------------------------------------- handleSubmit
FieldsFilled(t, p) == Trim(t) # << >> /\ Trim(p) # << >>

\* variant: a price of zero passes
PriceRejectedBelowZero(priceNumber) == priceNumber = None \/ priceNumber[1] < 0

PriceRejected(priceNumber) == priceNumber = None \/ priceNumber[1] <= 0

Validates(t, p) == FieldsFilled(t, p) /\ ~PriceRejected(ParseFloat(p))

NewProductOf(t, p) == [title |-> Trim(t), price |-> ParseFloat(p)[1]]

\* handleSubmit's checks and the NewProduct it builds, for each input
Validated == [i \in SubmitInputs |-> Validates(i[1], i[2])]
Built ==
    [i \in {j \in SubmitInputs : Validated[j]} |-> NewProductOf(i[1], i[2])]

\* variant: the mutation goes straight to mutationFn, onMutate is not run
MutateSkipsOnMutate(f, newProduct) ==
    /\ nSubmits < MaxSubmits
    /\ nSubmits' = nSubmits + 1
    /\ status' = [status EXCEPT ![f] = "pending"]
    /\ error' = [error EXCEPT ![f] = None]
    /\ variables' = [variables EXCEPT ![f] = Some(newProduct)]
    /\ context' = [context EXCEPT ![f] = None]
    /\ timestamp' = [timestamp EXCEPT ![f] = None]
    /\ data' = [data EXCEPT ![f] = None]
    /\ failureCount' = [failureCount EXCEPT ![f] = 0]
    /\ log' = [log EXCEPT ![f] = <<"mutate">>]
    /\ resp' = [resp EXCEPT ![f] = "none"]
    /\ pc' = [pc EXCEPT ![f] = "mutationFn"]
    /\ chain' = f

\* the inputs that are stepped through: a rejected submit is the same step
\* whatever the input, so one input stands for each of handleSubmit's two
\* checks; every input of SubmitInputs goes through Validated
SubmitCases ==
    {i \in SubmitInputs :
        \/ Validated[i]
        \/ i = << <<" ">>, <<" ", "1", ".", "5">> >>
        \/ i = << <<"P">>, <<"0">> >>}

\* useMutation's mutate: the mutation becomes pending and its chain starts
Mutate(f, newProduct) ==
    /\ nSubmits < MaxSubmits
    /\ nSubmits' = nSubmits + 1
    /\ status' = [status EXCEPT ![f] = "pending"]
    /\ error' = [error EXCEPT ![f] = None]
    /\ variables' = [variables EXCEPT ![f] = Some(newProduct)]
    /\ context' = [context EXCEPT ![f] = None]
    /\ timestamp' = [timestamp EXCEPT ![f] = None]
    /\ data' = [data EXCEPT ![f] = None]
    /\ failureCount' = [failureCount EXCEPT ![f] = 0]
    /\ log' = [log EXCEPT ![f] = <<"mutate">>]
    /\ resp' = [resp EXCEPT ![f] = "none"]
    /\ pc' = [pc EXCEPT ![f] = IF f \in OptimisticForms
                                THEN "onMutate" ELSE "mutationFn"]
    /\ chain' = f

\* variant: the inputs and the button stay enabled while the mutation is
\* pending
SubmitDisabledNever(f) == FALSE

\* disabled={addProductMutation.isPending} on the title input, the price
\* input and the submit button of the form
SubmitDisabled(f) == status[f] = "pending"

\* the form's submit handler; the inputs and the button are disabled while
\* the form's mutation is pending
HandleSubmit(f, t, p) ==
    /\ chain = "none"
    /\ ~SubmitDisabled(f)
    /\ \/ /\ ~Validated[<<t, p>>]
          /\ lastRejected' = TRUE
          /\ droppedFetch' = FALSE
          /\ UNCHANGED <<queryVars, server, now, listMounted, demoMode,
                         mutationVars, nSubmits>>
       \/ /\ Validated[<<t, p>>]
          /\ Mutate(f, Built[<<t, p>>])
          /\ lastRejected' = FALSE
          /\ droppedFetch' = FALSE
          /\ UNCHANGED <<queryVars, server, now, listMounted, demoMode>>

\* a demo-mode radio button is chosen and the demo form is submitted
SetDemoModeAndSubmit(m, t, p) ==
    /\ chain = "none"
    /\ ~SubmitDisabled("demo")
    /\ m # demoMode
    /\ demoMode' = m
    /\ Validated[<<t, p>>]
    /\ Mutate("demo", Built[<<t, p>>])
    /\ lastRejected' = FALSE
    /\ droppedFetch' = FALSE
    /\ UNCHANGED <<queryVars, server, now, listMounted>>

\* ---------------------------------------------------------------- onMutate
\* Date.now(): the clock never runs backwards
DateNow == now..MaxNow

\* onMutate up to the awaited cancelQueries
OnMutateCancel(f) ==
    /\ lastRejected' = FALSE
    /\ droppedFetch' = (fetch.stage # "idle")
    /\ chain = f
    /\ pc[f] = "onMutate"
    /\ IF f = "demo"
       THEN \E ts \in DateNow :
               /\ now' = ts
               /\ timestamp' = [timestamp EXCEPT ![f] = Some(ts)]
       ELSE UNCHANGED <<now, timestamp>>
    /\ fetch' = CancelQueries
    /\ log' = [log EXCEPT ![f] = Append(@, "cancelQueries")]
    /\ pc' = [pc EXCEPT ![f] = "cancelled"]
    /\ UNCHANGED <<cache, invalidated, lastFetched, server, listMounted,
                   demoMode, status, error, variables, context, data,
                   failureCount, resp, chain, nSubmits>>

\* variant: the snapshot is kept in one place that the forms share
OnMutateWriteSharesContext(f) ==
    /\ lastRejected' = FALSE
    /\ droppedFetch' = droppedFetch
    /\ chain = f
    /\ pc[f] = "cancelled"
    /\ \E ts \in IF f = "demo" THEN {timestamp[f][1]}
                  ELSE IF cache = None THEN {now} ELSE DateNow :
          LET previousProducts == cache
          IN  /\ cache' = SetQueryData(cache,
                             OptimisticUpdater(f, cache, variables[f][1], ts))
              /\ invalidated' = IF cache = None THEN invalidated ELSE FALSE
              /\ now' = ts
              /\ timestamp' = [timestamp EXCEPT ![f] =
                                 IF f = "demo" THEN @
                                 ELSE IF cache = None THEN None ELSE Some(ts)]
              /\ context' = [g \in Forms |->
                               Some([previousProducts |-> previousProducts])]
    /\ log' = [log EXCEPT ![f] = @ \o <<"getQueryData", "setQueryData">>]
    /\ pc' = [pc EXCEPT ![f] = "mutationFn"]
    /\ UNCHANGED <<fetch, lastFetched, server, listMounted, demoMode,
                   status, error, variables, data, failureCount, resp, chain,
                   nSubmits>>

\* onMutate after the await: snapshot, speculative write, context
OnMutateWrite(f) ==
    /\ lastRejected' = FALSE
    /\ droppedFetch' = droppedFetch
    /\ chain = f
    /\ pc[f] = "cancelled"
    /\ \E ts \in IF f = "demo" THEN {timestamp[f][1]}
                  ELSE IF cache = None THEN {now} ELSE DateNow :
          LET previousProducts == cache
          IN  /\ cache' = SetQueryData(cache,
                             OptimisticUpdater(f, cache, variables[f][1], ts))
              /\ invalidated' = IF cache = None THEN invalidated ELSE FALSE
              /\ now' = ts
              /\ timestamp' = [timestamp EXCEPT ![f] =
                                 IF f = "demo" THEN @
                                 ELSE IF cache = None THEN None ELSE Some(ts)]
              /\ context' = [context EXCEPT ![f] =
                               Some([previousProducts |-> previousProducts])]
    /\ log' = [log EXCEPT ![f] = @ \o <<"getQueryData", "setQueryData">>]
    /\ pc' = [pc EXCEPT ![f] = "mutationFn"]
    /\ UNCHANGED <<fetch, lastFetched, server, listMounted, demoMode,
                   status, error, variables, data, failureCount, resp, chain,
                   nSubmits>>

\* -------------------------------------------------------------- mutationFn
\* whether the form's mutationFn tests response.ok
ChecksResponseOk(f) == f # "demo"

\* mutationFn is called: the create request leaves, or a demo timer starts
MutationFn(f) ==
    /\ lastRejected' = FALSE
    /\ droppedFetch' = FALSE
    /\ chain = f
    /\ pc[f] = "mutationFn"
    /\ pc' = [pc EXCEPT ![f] =
                IF f = "demo" /\ demoMode = "slow" THEN "timerSlow"
                ELSE IF f = "demo" /\ demoMode = "error" THEN "timerError"
                ELSE "fetching"]
    /\ log' = [log EXCEPT ![f] =
                  IF f = "demo" /\ demoMode \in {"slow", "error"}
                  THEN Append(@, "mutationFn")
                  ELSE @ \o <<"mutationFn", "POST">>]
    /\ chain' = "none"
    /\ UNCHANGED <<queryVars, server, now, listMounted, demoMode, status,
                   error, variables, context, timestamp, data, failureCount,
                   resp, nSubmits>>

\* mutationFn rejected with message msg: retried while the retry count
\* allows, else the failure handlers run
Fail(f, msg) ==
    /\ failureCount' = [failureCount EXCEPT ![f] = @ + 1]
    /\ IF failureCount[f] < MutationRetry
       THEN /\ pc' = [pc EXCEPT ![f] = "mutationFn"]
            /\ error' = error
       ELSE /\ pc' = [pc EXCEPT ![f] = "onError"]
            /\ error' = [error EXCEPT ![f] = Some(msg)]
    /\ chain' = f
    /\ UNCHANGED <<data, server>>

\* mutationFn resolved with body
Succeed(f, body) ==
    /\ data' = [data EXCEPT ![f] = Some(body)]
    /\ pc' = [pc EXCEPT ![f] = "onSuccess"]
    /\ chain' = f
    /\ UNCHANGED <<error, failureCount>>

\* a demo timer fires: slow mode sends the request, error mode throws
TimerFires(f) ==
    /\ lastRejected' = FALSE
    /\ droppedFetch' = FALSE
    /\ chain = "none"
    /\ pc[f] \in {"timerSlow", "timerError"}
    /\ IF pc[f] = "timerSlow"
       THEN /\ pc' = [pc EXCEPT ![f] = "fetching"]
            /\ log' = [log EXCEPT ![f] = Append(@, "POST")]
            /\ UNCHANGED <<error, data, failureCount, chain, resp, server>>
       ELSE /\ Fail(f, "Server temporarily unavailable (demo error)")
            /\ resp' = [resp EXCEPT ![f] = "thrown"]
            /\ log' = log
    /\ UNCHANGED <<queryVars, now, listMounted, demoMode, status, variables,
                   context, timestamp, nSubmits>>

\* the create request is answered: o is what the remote service did
RemoteResolve(f, o) ==
    /\ lastRejected' = FALSE
    /\ droppedFetch' = FALSE
    /\ chain = "none"
    /\ pc[f] = "fetching"
    /\ resp' = [resp EXCEPT ![f] = o]
    /\ CASE o = "ok" ->
              /\ server' = Append(server, CreateProduct(server, variables[f][1]))
              /\ Succeed(f, CreateProduct(server, variables[f][1]))
         [] o = "nok" ->
              IF ChecksResponseOk(f)
              THEN Fail(f, "Failed to add product")
              ELSE Succeed(f, ErrorBody) /\ server' = server
         [] o = "reject" -> Fail(f, "Failed to fetch")
    /\ UNCHANGED <<queryVars, now, listMounted, demoMode, status, variables,
                   context, timestamp, log, nSubmits>>


\* ---------------------------------------------------------------- handlers
\* the mutation's final dispatch: error or success; the mutation keeps its
\* variables, context, data and error until the form is submitted again
Finish(f) ==
    /\ status' = [status EXCEPT ![f] = IF error[f] # None THEN "error"
                                        ELSE "success"]
    /\ UNCHANGED <<context, timestamp>>
    /\ pc' = [pc EXCEPT ![f] = "idle"]
    /\ chain' = "none"

\* variant: the pessimistic form also writes the created product to the entry
OnSuccessWritesCache(f) ==
    /\ lastRejected' = FALSE
    /\ droppedFetch' = FALSE
    /\ chain = f
    /\ pc[f] = "onSuccess"
    /\ log' = [log EXCEPT ![f] = Append(@, "onSuccess")]
    /\ IF f \in OptimisticForms
       THEN /\ pc' = [pc EXCEPT ![f] = "onSettled"]
            /\ UNCHANGED <<cache, invalidated, fetch, status, chain, context,
                           timestamp>>
       ELSE /\ cache' = IF cache = None THEN cache
                        ELSE Some([cache[1] EXCEPT
                                     !.products = Append(@, data[f][1])])
            /\ invalidated' = TRUE
            /\ fetch' = InvalidateQueries(f)
            /\ Finish(f)
    /\ UNCHANGED <<lastFetched, server, now, listMounted, demoMode, error,
                   variables, data, failureCount, resp, nSubmits>>

\* variant: the optimistic forms put the created product in the place of the
\* first item of the entry
OnSuccessReplacesPlaceholder(f) ==
    /\ lastRejected' = FALSE
    /\ droppedFetch' = FALSE
    /\ chain = f
    /\ pc[f] = "onSuccess"
    /\ log' = [log EXCEPT ![f] = Append(@, "onSuccess")]
    /\ IF f \in OptimisticForms
       THEN /\ pc' = [pc EXCEPT ![f] = "onSettled"]
            /\ cache' = IF cache = None \/ cache[1].products = << >>
                        THEN cache
                        ELSE Some([cache[1] EXCEPT
                                     !.products = <<data[f][1]>> \o Tail(@)])
            /\ UNCHANGED <<invalidated, fetch, status, chain, context,
                           timestamp>>
       ELSE /\ invalidated' = TRUE
            /\ fetch' = InvalidateQueries(f)
            /\ cache' = cache
            /\ Finish(f)
    /\ UNCHANGED <<lastFetched, server, now, listMounted, demoMode,
                   error, variables, data, failureCount, resp, nSubmits>>

\* onSuccess: the optimistic forms only reset their inputs, the pessimistic
\* form invalidates the entry
OnSuccess(f) ==
    /\ lastRejected' = FALSE
    /\ droppedFetch' = FALSE
    /\ chain = f
    /\ pc[f] = "onSuccess"
    /\ log' = [log EXCEPT ![f] = Append(@, "onSuccess")]
    /\ IF f \in OptimisticForms
       THEN /\ pc' = [pc EXCEPT ![f] = "onSettled"]
            /\ UNCHANGED <<invalidated, fetch, status, chain, context,
                           timestamp>>
       ELSE /\ invalidated' = TRUE
            /\ fetch' = InvalidateQueries(f)
            /\ Finish(f)
    /\ UNCHANGED <<cache, lastFetched, server, now, listMounted, demoMode,
                   error, variables, data, failureCount, resp, nSubmits>>

\* variant: after a failure the mutation ends without onSettled
OnErrorSkipsSettled(f) ==
    /\ lastRejected' = FALSE
    /\ droppedFetch' = FALSE
    /\ chain = f
    /\ pc[f] = "onError"
    /\ log' = [log EXCEPT ![f] = Append(@, "onError")]
    /\ cache' = IF f \in OptimisticForms THEN Rollback(cache, context[f])
                ELSE cache
    /\ invalidated' = IF cache' = cache THEN invalidated ELSE FALSE
    /\ Finish(f)
    /\ UNCHANGED <<fetch, lastFetched, server, now, listMounted, demoMode,
                   error, variables, data, failureCount, resp, nSubmits>>

\* onError: the optimistic forms roll the entry back, the pessimistic form
\* only logs
OnError(f) ==
    /\ lastRejected' = FALSE
    /\ droppedFetch' = FALSE
    /\ chain = f
    /\ pc[f] = "onError"
    /\ log' = [log EXCEPT ![f] = Append(@, "onError")]
    /\ IF f \in OptimisticForms
       THEN /\ cache' = Rollback(cache, context[f])
            /\ invalidated' = IF Rollback(cache, context[f]) = cache
                                 /\ (context[f] = None
                                     \/ context[f][1].previousProducts = None)
                              THEN invalidated ELSE FALSE
            /\ pc' = [pc EXCEPT ![f] = "onSettled"]
            /\ UNCHANGED <<status, chain, context, timestamp>>
       ELSE /\ Finish(f)
            /\ UNCHANGED <<cache, invalidated>>
    /\ UNCHANGED <<fetch, lastFetched, server, now, listMounted, demoMode,
                   error, variables, data, failureCount, resp, nSubmits>>

\* onSettled of the optimistic forms: invalidate, whatever the outcome
OnSettled(f) ==
    /\ lastRejected' = FALSE
    /\ droppedFetch' = FALSE
    /\ chain = f
    /\ pc[f] = "onSettled"
    /\ log' = [log EXCEPT ![f] = Append(@, "onSettled")]
    /\ invalidated' = TRUE
    /\ fetch' = InvalidateQueries(f)
    /\ Finish(f)
    /\ UNCHANGED <<cache, lastFetched, server, now, listMounted, demoMode,
                   error, variables, data, failureCount, resp, nSubmits>>

\* ---------------------------------------------------- the ['products'] query
\* the remote service answers the list request
ServerAnswersList ==
    /\ lastRejected' = FALSE
    /\ droppedFetch' = FALSE
    /\ fetch.stage = "sent"
    /\ chain = "none"
    /\ fetch' = [fetch EXCEPT !.stage = "answered",
                              !.data = Some(ListProducts(server))]
    /\ UNCHANGED <<cache, invalidated, lastFetched, server, now, listMounted,
                   demoMode, mutationVars, nSubmits>>

\* queryFn resolves: the result replaces the entry
FetchComplete ==
    /\ lastRejected' = FALSE
    /\ droppedFetch' = FALSE
    /\ fetch.stage = "answered"
    /\ chain = "none"
    /\ cache' = fetch.data
    /\ invalidated' = FALSE
    /\ lastFetched' = [data |-> fetch.data, by |-> fetch.by]
    /\ fetch' = IdleFetch
    /\ UNCHANGED <<server, now, listMounted, demoMode, mutationVars,
                   nSubmits>>

\* App.handleProductSelect: a product card is clicked, ProductDetail replaces
\* ProductList; a fetch in flight goes on
SelectProduct ==
    /\ lastRejected' = FALSE
    /\ droppedFetch' = FALSE
    /\ chain = "none"
    /\ listMounted
    /\ cache # None
    /\ cache[1].products # << >>
    /\ listMounted' = FALSE
    /\ UNCHANGED <<queryVars, server, now, demoMode, mutationVars, nSubmits>>

\* App.handleBackToList: ProductList mounts again and fetches its stale entry
BackToList ==
    /\ lastRejected' = FALSE
    /\ droppedFetch' = FALSE
    /\ chain = "none"
    /\ ~listMounted
    /\ listMounted' = TRUE
    /\ fetch' = IF fetch.stage = "idle" THEN SentFetch("observer") ELSE fetch
    /\ UNCHANGED <<cache, invalidated, lastFetched, server, now, demoMode,
                   mutationVars, nSubmits>>

\* the window regains focus: a mounted ProductList fetches its stale entry
WindowFocus ==
    /\ lastRejected' = FALSE
    /\ droppedFetch' = FALSE
    /\ chain = "none"
    /\ listMounted
    /\ fetch.stage = "idle"
    /\ fetch' = SentFetch("observer")
    /\ UNCHANGED <<cache, invalidated, lastFetched, server, now, listMounted,
                   demoMode, mutationVars, nSubmits>>

\* ------------------------------------------------------------ specification
Next ==
    \/ \E f \in Forms, i \in SubmitCases : HandleSubmit(f, i[1], i[2])
    \/ \E f \in OptimisticForms : OnMutateCancel(f)
    \/ \E f \in OptimisticForms : OnMutateWrite(f)
    \/ \E f \in Forms : MutationFn(f)
    \/ \E f \in Forms : TimerFires(f)
    \/ \E f \in Forms, o \in Outcomes : RemoteResolve(f, o)
    \/ \E f \in Forms : OnSuccess(f)
    \/ \E f \in Forms : OnError(f)
    \/ \E f \in OptimisticForms : OnSettled(f)
    \/ ServerAnswersList
    \/ FetchComplete
    \/ SelectProduct
    \/ BackToList
    \/ WindowFocus
    \/ \E m \in DemoModes, i \in SubmitCases :
          SetDemoModeAndSubmit(m, i[1], i[2])

Spec == Init /\ [][Next]_vars

\* the steps of a running promise chain and the demo timers are taken by the
\* event loop, and a list request that was sent is answered; what the user
\* does and whether a create request is ever answered is left open
Fairness ==
    /\ \A f \in OptimisticForms :
          /\ WF_vars(OnMutateCancel(f))
          /\ WF_vars(OnMutateWrite(f))
          /\ WF_vars(OnSettled(f))
    /\ \A f \in Forms :
          /\ WF_vars(MutationFn(f))
          /\ WF_vars(TimerFires(f))
          /\ WF_vars(OnSuccess(f))
          /\ WF_vars(OnError(f))
    /\ WF_vars(ServerAnswersList)
    /\ WF_vars(FetchComplete)

\* the optimistic forms alone, with the product list
NextOptimistic ==
    \/ \E f \in OptimisticForms, i \in SubmitCases : HandleSubmit(f, i[1], i[2])
    \/ \E m \in DemoModes, i \in SubmitCases :
          SetDemoModeAndSubmit(m, i[1], i[2])
    \/ \E f \in OptimisticForms : OnMutateCancel(f)
    \/ \E f \in OptimisticForms : OnMutateWrite(f)
    \/ \E f \in OptimisticForms : MutationFn(f)
    \/ \E f \in OptimisticForms : TimerFires(f)
    \/ \E f \in OptimisticForms, o \in Outcomes : RemoteResolve(f, o)
    \/ \E f \in OptimisticForms : OnSuccess(f)
    \/ \E f \in OptimisticForms : OnError(f)
    \/ \E f \in OptimisticForms : OnSettled(f)
    \/ ServerAnswersList
    \/ FetchComplete
    \/ SelectProduct
    \/ BackToList
    \/ WindowFocus

FairSpec == Init /\ [][NextOptimistic]_vars /\ Fairness


\* --------------------------------------------------------------- properties
Range(seq) == {seq[i] : i \in 1..Len(seq)}

Count(seq, x) == Cardinality({i \in 1..Len(seq) : seq[i] = x})

\* the snapshot that the invocation of form f holds
Snapshot(f) == context[f][1].previousProducts

\* onMutate of form f has just returned
BeginReturned(f) ==
    chain = f /\ pc[f] = "mutationFn" /\ failureCount[f] = 0

\* the entry is the snapshot of f with the product of f's input put in front
SpeculativeOver(f, old) ==
    /\ cache # None
    /\ Len(cache[1].products) = Len(old.products) + 1
    /\ Head(cache[1].products).title = variables[f][1].title
    /\ Head(cache[1].products).price = variables[f][1].price
    /\ Tail(cache[1].products) = old.products
    /\ cache[1].total = old.total + 1

\* C1 as stated: whenever onMutate of an optimistic form has returned, the
\* entry holds one item more than before, the placeholder first, the previous
\* items after it in their order, and total is one more than before (an entry
\* that was never loaded counts as holding no items and total 0).
C1_SpeculativeWriteAlways ==
    \A f \in OptimisticForms :
        BeginReturned(f) =>
            SpeculativeOver(f, IF Snapshot(f) = None
                               THEN [products |-> << >>, total |-> 0]
                               ELSE Snapshot(f)[1])

\* C1 amended: whenever onMutate of an optimistic form has returned and the
\* entry was loaded when it ran, the entry holds one item more than the
\* snapshot, the placeholder first, the snapshot's items after it in their
\* order, and total is the snapshot's total plus one.
C1_SpeculativeWriteWhenLoaded ==
    \A f \in OptimisticForms :
        (BeginReturned(f) /\ Snapshot(f) # None) =>
            SpeculativeOver(f, Snapshot(f)[1])

C1_Witness ==
    \E f \in OptimisticForms :
        /\ BeginReturned(f)
        /\ Snapshot(f) # None
        /\ Len(Snapshot(f)[1].products) = 2
        /\ Len(cache[1].products) = 3

\* onError of form f has just run
ErrorHandled(f) == chain = f /\ pc[f] = "onSettled" /\ error[f] # None

\* C2 as stated: right after onError of an invocation has run, the entry
\* equals the snapshot of that invocation and holds no item with the
\* invocation's temporary id.
C2_RollbackRestoresSnapshotAlways ==
    \A f \in OptimisticForms :
        ErrorHandled(f) =>
            /\ cache = Snapshot(f)
            /\ timestamp[f] # None /\ cache # None =>
                 \A i \in 1..Len(cache[1].products) :
                     cache[1].products[i].id # timestamp[f][1]

\* C2 amended: right after onError of an invocation has run, if the entry was
\* loaded when onMutate ran, the entry equals the snapshot of that invocation,
\* so it holds the temporary id only on items the snapshot held.
C2_RollbackRestoresLoadedSnapshot ==
    \A f \in OptimisticForms :
        (ErrorHandled(f) /\ Snapshot(f) # None) => cache = Snapshot(f)

C2_Witness ==
    \E f \in OptimisticForms :
        /\ ErrorHandled(f)
        /\ Snapshot(f) # None
        /\ Len(Snapshot(f)[1].products) = 1
        /\ resp[f] = "reject"

\* C3: in an optimistic form a create call that rejects or is answered with a
\* non-success status never reaches onSuccess and ends in the error status.
C3_RemoteFailureEndsInError ==
    \A f \in OptimisticForms :
        resp[f] \in {"nok", "reject"} =>
            /\ pc[f] # "onSuccess"
            /\ pc[f] = "idle" => status[f] = "error"

\* the inputs that C4 calls invalid
TitleBlank(t) == \A i \in 1..Len(t) : t[i] \in Whitespace
PriceInvalid(p) ==
    p = << >> \/ ParseFloat(p) = None \/ ParseFloat(p)[1] <= 0

\* C4: a submit with a title that is blank after trimming, or a price that is
\* empty, not a number or not above zero changes neither the entry, nor its
\* fetch, nor the remote list, nor any mutation's state.
InvalidInputsRejected ==
    \A i \in SubmitInputs :
        (TitleBlank(i[1]) \/ PriceInvalid(i[2])) => ~Validates(i[1], i[2])

C4_InvalidSubmitChangesNothing ==
    [][/\ InvalidInputsRejected
       /\ lastRejected' =>
             UNCHANGED <<cache, invalidated, fetch, lastFetched, server, pc,
                         status, error, variables, context, data, log, chain,
                         nSubmits>>]_vars

C4_Witness ==
    /\ lastRejected
    /\ cache # None
    /\ fetch.stage = "sent"
    /\ \E f \in Forms : status[f] = "pending"


\* C5: in the optimistic forms onSettled runs at most once in an invocation,
\* and when the invocation has ended it has run exactly once, as the last step,
\* right after onSuccess if the mutation succeeded and right after onError if
\* it failed.
C5_SettledOnceAfterHandler ==
    \A f \in OptimisticForms :
        /\ Count(log[f], "onSettled") <= 1
        /\ (pc[f] = "idle" /\ status[f] \in {"success", "error"}) =>
              /\ Count(log[f], "onSettled") = 1
              /\ log[f][Len(log[f])] = "onSettled"
              /\ log[f][Len(log[f]) - 1] =
                    IF status[f] = "success" THEN "onSuccess" ELSE "onError"

C5_Witness ==
    \E f, g \in OptimisticForms :
        /\ pc[f] = "idle" /\ status[f] = "error"
        /\ pc[g] = "idle" /\ status[g] = "success"
        /\ Count(log[f], "onSettled") = 1
        /\ Count(log[g], "onSettled") = 1

\* C8: once onError has rolled the entry back, rolling back again with the
\* same context leaves the entry as it is.
C8_RollbackIdempotent ==
    \A f \in OptimisticForms :
        ErrorHandled(f) => Rollback(cache, context[f]) = cache

C8_Witness ==
    \E f \in OptimisticForms :
        /\ ErrorHandled(f)
        /\ Snapshot(f) # None
        /\ Len(Snapshot(f)[1].products) = 2
        /\ Snapshot(f)[1].total = 3

\* C9: in one invocation mutationFn is called at most once and the create
\* request is sent at most once; after a failure the invocation only runs its
\* failure handlers and ends in the error status.
C9_CreateCallAtMostOnce ==
    \A f \in Forms :
        /\ Count(log[f], "mutationFn") <= 1
        /\ Count(log[f], "POST") <= 1
        /\ failureCount[f] > 0 =>
              /\ pc[f] \in {"onError", "onSettled", "idle"}
              /\ pc[f] = "idle" => status[f] = "error"

C9_Witness ==
    \E f \in Forms :
        /\ pc[f] = "idle"
        /\ status[f] = "error"
        /\ failureCount[f] = 1
        /\ Count(log[f], "POST") = 1

\* C10: no step of the pessimistic form writes the entry; its onSuccess, which
\* runs only after a create call answered with success, invalidates the entry
\* and starts a fetch for a mounted list; no other step of the form touches
\* the invalidated flag or the fetch.
C10_PessimisticNeverWrites ==
    [][pc'["pess"] # pc["pess"] =>
          /\ cache' = cache
          /\ pc'["pess"] = "onSuccess" => resp'["pess"] = "ok"
          /\ pc["pess"] = "onSuccess" =>
                /\ invalidated'
                /\ (listMounted /\ cache # None) => fetch' = SentFetch("pess")
          /\ pc["pess"] # "onSuccess" =>
                /\ invalidated' = invalidated
                /\ fetch' = fetch]_vars

C10_Witness ==
    /\ pc["pess"] = "idle"
    /\ status["pess"] = "error"
    /\ resp["pess"] = "nok"
    /\ cache # None
    /\ ~invalidated


\* the placeholder that the invocation of form f put into the entry
Placeholder(f) == OptimisticProduct(f, variables[f][1], timestamp[f][1])

\* the fetch that onSettled of form f started completes
RefetchCompletes(f) == FetchComplete /\ fetch.by = f

SettledAndQuiet ==
    /\ \E f \in OptimisticForms : status[f] \in {"success", "error"}
    /\ \A g \in Forms : pc[g] = "idle"

\* the entry is the result of the most recently completed fetch
Synced == cache # None /\ cache = lastFetched.data

\* a form has been submitted again
SubmittedAgain == \E g \in Forms : pc[g] # "idle"

BeginOrder ==
    <<"mutate", "cancelQueries", "getQueryData", "setQueryData", "mutationFn">>

\* the steps of f so far follow BeginOrder, and the create request leaves
\* right after them
InBeginOrder(f) ==
    /\ \A i \in 1..Len(log[f]) :
          /\ i <= Len(BeginOrder) => log[f][i] = BeginOrder[i]
          /\ log[f][i] = "POST" => i = Len(BeginOrder) + 1

\* C11: in an optimistic invocation cancelQueries has completed before the
\* snapshot is read, the speculative write is applied to the very entry the
\* snapshot was read from, mutationFn is called only after the write and the
\* create request leaves only after that; when mutationFn is called, a loaded
\* entry shows the placeholder in front of the snapshot's items.
C11_BeginBeforeCreateCall ==
    [][\A f \in OptimisticForms :
          /\ log'[f] # log[f] => InBeginOrder(f)'
          /\ (pc[f] = "cancelled" /\ pc'[f] # pc[f]) =>
                /\ fetch.stage = "idle"
                /\ context'[f] = Some([previousProducts |-> cache])
                /\ cache' = SetQueryData(cache,
                               OptimisticUpdater(f, cache, variables[f][1],
                                                 now'))
          /\ (pc[f] = "mutationFn" /\ pc'[f] # pc[f] /\ context[f] # None
                /\ Snapshot(f) # None) =>
                /\ Head(cache[1].products) = Placeholder(f)
                /\ Tail(cache[1].products) = Snapshot(f)[1].products
                /\ cache' = cache]_vars

C11_Witness ==
    \E f \in OptimisticForms :
        /\ pc[f] = "fetching"
        /\ log[f] = Append(BeginOrder, "POST")
        /\ Snapshot(f) # None
        /\ Len(Snapshot(f)[1].products) = 2
        /\ Head(cache[1].products) = Placeholder(f)

\* C13: from the completion of cancelQueries until onMutate has returned no
\* fetch of the entry is in flight, so a fetch that was in flight when begin
\* ran never delivers its result: the entry keeps the speculative write until
\* a fetch started later completes.
C13_InFlightFetchDiscarded ==
    \A f \in OptimisticForms :
        (chain = f /\ pc[f] \in {"cancelled", "mutationFn"}) =>
            /\ fetch = IdleFetch
            /\ (pc[f] = "mutationFn" /\ Snapshot(f) # None) =>
                  Head(cache[1].products) = Placeholder(f)

C13_Witness ==
    \E f \in OptimisticForms :
        /\ BeginReturned(f)
        /\ droppedFetch
        /\ Snapshot(f) # None
        /\ fetch = IdleFetch
        /\ Head(cache[1].products) = Placeholder(f)

\* the mutation of form g is pending and its onMutate has returned
PendingAfterBegin(g) ==
    /\ pc[g] \in {"mutationFn", "fetching", "timerSlow", "timerError"}
    /\ context[g] # None

\* C14: when onError of an invocation has rolled the entry back while another
\* optimistic invocation is pending whose placeholder the snapshot does not
\* hold, the entry is the snapshot of the failed invocation and the pending
\* invocation's placeholder is gone from it.
C14_RollbackRemovesLaterPlaceholder ==
    \A f, g \in OptimisticForms :
        (/\ f # g
         /\ ErrorHandled(f)
         /\ Snapshot(f) # None
         /\ PendingAfterBegin(g)
         /\ Snapshot(g) # None
         /\ Placeholder(g) \notin Range(Snapshot(f)[1].products)) =>
            /\ cache = Snapshot(f)
            /\ Placeholder(g) \notin Range(cache[1].products)

\* the second invocation began on the entry that held the first one's
\* placeholder, and the first has failed and rolled back
C14_Witness ==
    \E f, g \in OptimisticForms :
        /\ f # g
        /\ ErrorHandled(f)
        /\ Snapshot(f) # None
        /\ PendingAfterBegin(g)
        /\ Snapshot(g) # None
        /\ Snapshot(g)[1].products # << >>
        /\ Head(Snapshot(g)[1].products) = Placeholder(f)
        /\ Tail(Snapshot(g)[1].products) = Snapshot(f)[1].products
        /\ Len(Snapshot(f)[1].products) = 2
        /\ cache = Snapshot(f)

\* C15: the context of an optimistic form changes only when that form's own
\* onMutate returns, to the snapshot that onMutate read, or when the form is
\* submitted again; and what onError of the form writes, if it writes, is the
\* snapshot of that context.
C15_ContextOwnedByInvocation ==
    [][\A f \in OptimisticForms :
          /\ context'[f] # context[f] =>
                \/ /\ chain = f
                   /\ pc[f] = "cancelled"
                   /\ context'[f] = Some([previousProducts |-> cache])
                \/ /\ status[f] # "pending"
                   /\ status'[f] = "pending"
                   /\ context'[f] = None
          /\ (pc[f] = "onError" /\ pc'[f] # pc[f] /\ cache' # cache) =>
                (context[f] # None /\ cache' = Snapshot(f))]_vars

\* the invocation that began second has failed and has restored its own
\* snapshot, which holds the placeholder of the first
C15_Witness ==
    \E f, g \in OptimisticForms :
        /\ f # g
        /\ ErrorHandled(f)
        /\ PendingAfterBegin(g)
        /\ Snapshot(f) # None
        /\ Snapshot(g) # None
        /\ Snapshot(f) # Snapshot(g)
        /\ Snapshot(f)[1].products # << >>
        /\ Head(Snapshot(f)[1].products) = Placeholder(g)
        /\ cache = Snapshot(f)

\* C16: when the entry is absent as onMutate of an optimistic form reads it,
\* the speculative write leaves it absent and the snapshot in the context is
\* absent too; onError of an invocation whose snapshot is absent leaves the
\* entry as it is.
C16_AbsentEntryIsNoOp ==
    [][\A f \in OptimisticForms :
          /\ (pc[f] = "cancelled" /\ pc'[f] # pc[f] /\ cache = None) =>
                /\ cache' = None
                /\ context'[f] = Some([previousProducts |-> None])
          /\ (pc[f] = "onError" /\ pc'[f] # pc[f] /\ context[f] # None
                /\ Snapshot(f) = None) =>
                cache' = cache]_vars

\* an invocation that began on the absent entry has failed after a fetch
\* filled the entry, and the entry is still what the fetch delivered
C16_Witness ==
    \E f \in OptimisticForms :
        /\ ErrorHandled(f)
        /\ Snapshot(f) = None
        /\ timestamp[f] = None
        /\ cache # None
        /\ cache = lastFetched.data
        /\ Len(cache[1].products) = 2

\* C17: onSuccess of an optimistic form leaves the entry, its invalidated
\* flag and its fetch exactly as they were, and does nothing with the
\* response that mutationFn resolved with.
C17_OnSuccessWritesNothing ==
    [][\A f \in OptimisticForms :
          (pc[f] = "onSuccess" /\ pc'[f] # pc[f]) =>
              /\ cache' = cache
              /\ invalidated' = invalidated
              /\ fetch' = fetch
              /\ data' = data
              /\ pc'[f] = "onSettled"]_vars

\* onSuccess has just run: the response carries the id the remote service
\* assigned and the entry still shows the placeholder
C17_Witness ==
    \E f \in OptimisticForms :
        /\ chain = f
        /\ pc[f] = "onSettled"
        /\ error[f] = None
        /\ resp[f] = "ok"
        /\ data[f][1].id = 3
        /\ Snapshot(f) # None
        /\ Head(cache[1].products) = Placeholder(f)

FailureMessage(r) ==
    CASE r = "nok" -> "Failed to add product"
      [] r = "reject" -> "Failed to fetch"
      [] r = "thrown" -> "Server temporarily unavailable (demo error)"

\* C19: a form's mutation is pending from the submit until its handlers have
\* run; it then is in the error status exactly if the create call failed
\* (rejected, answered with a non-success status, or thrown by the demo's
\* error mode), and in the success status otherwise; in the error status the
\* error shown is the message of that failure.
C19_StatusFollowsOutcome ==
    \A f \in OptimisticForms :
        /\ status[f] \in {"idle", "pending", "error", "success"}
        /\ pc[f] # "idle" => status[f] = "pending"
        /\ (pc[f] = "idle" /\ status[f] # "idle") =>
              /\ status[f] \in {"error", "success"}
              /\ status[f] = "error" <=> resp[f] \in {"nok", "reject", "thrown"}
              /\ status[f] = "error" =>
                    error[f] = Some(FailureMessage(resp[f]))
              /\ status[f] = "success" => error[f] = None

\* the entry holds the placeholder of the invocation of form f
ShowsPlaceholder(f, entry) ==
    entry # None /\ Placeholder(f) \in Range(entry[1].products)

FinalSteps(f) ==
    IF f \in OptimisticForms THEN {"onSettled"} ELSE {"onSuccess", "onError"}

\* this step is a call of mutate by form f
Submits(f) ==
    nSubmits' = nSubmits + 1 /\ chain' = f /\ log'[f] = <<"mutate">>

\* C21: a form never has two of its own invocations in flight. An invocation
\* is in flight exactly while the form's mutation is pending, which is while
\* the form's inputs and button are disabled; a form calls mutate only when
\* none of its invocations is in flight, and if it submitted before, that
\* invocation has run to its last step and stands in error or success.
C21_OneInvocationInFlight ==
    [][\A f \in Forms :
          /\ (pc[f] # "idle") = SubmitDisabled(f)
          /\ Submits(f) =>
                /\ pc[f] = "idle"
                /\ status[f] # "pending"
                /\ log[f] # << >> =>
                      /\ status[f] \in {"error", "success"}
                      /\ log[f][Len(log[f])] \in FinalSteps(f)]_vars

\* a form is in its second invocation, with its create request out, and no
\* other form has submitted
C21_Witness ==
    \E f \in Forms :
        /\ nSubmits = 2
        /\ \A g \in Forms \ {f} : log[g] = << >>
        /\ status[f] = "pending"
        /\ pc[f] = "fetching"

\* ---------------------------------------------------------------------- C22
\* total minus the number of items of a loaded entry
Difference(entry) == entry[1].total - Len(entry[1].products)

\* this step is the speculative write of form f's onMutate
SpeculativeWriteStep(f) == pc[f] = "cancelled" /\ pc'[f] = "mutationFn"

\* this step is form f's onError
RollbackStep(f) == pc[f] = "onError" /\ pc'[f] = "onSettled"

\* C22 as stated: in every reachable state the difference between total and
\* the number of items of the entry equals that difference in the most
\* recently completed fetch.
C22_DifferenceEqualsLastFetch ==
    cache # None => Difference(cache) = Difference(lastFetched.data)

\* C22 amended: the entry changes only in three ways, each a single step that
\* sets total and the items together: the speculative write adds one to total
\* and one item, the rollback puts the snapshot in the entry's place, and a
\* completed fetch puts its result there. The difference between total and
\* the number of items stays equal to that of the most recently completed
\* fetch through every step except a rollback that changes the entry, which
\* sets it to the difference of its snapshot.
C22_DifferencePreservedExceptByRollback ==
    [][/\ cache' # cache =>
             \/ \E f \in OptimisticForms :
                   /\ SpeculativeWriteStep(f)
                   /\ cache # None
                   /\ cache'[1].total = cache[1].total + 1
                   /\ Len(cache'[1].products) = Len(cache[1].products) + 1
                   /\ Difference(cache') = Difference(cache)
             \/ \E f \in OptimisticForms :
                   /\ RollbackStep(f)
                   /\ cache' = Snapshot(f)
             \/ /\ fetch.stage = "answered"
                /\ cache' = fetch.data
                /\ lastFetched'.data = fetch.data
       /\ (/\ cache' # None
           /\ cache = None \/ Difference(cache) = Difference(lastFetched.data)
           /\ ~\E f \in OptimisticForms : RollbackStep(f) /\ cache' # cache)
             => Difference(cache') = Difference(lastFetched'.data)]_vars

\* onError has just restored a snapshot taken before the last fetch
\* completed: the entry's difference is the snapshot's, not that of the fetch
C22_Witness ==
    \E f \in OptimisticForms :
        /\ ErrorHandled(f)
        /\ Snapshot(f) # None
        /\ cache = Snapshot(f)
        /\ Difference(cache) # Difference(lastFetched.data)

====
